---------------------------- MODULE Spec2Model ----------------------------
(***************************************************************************)
(* A model of parseUSBs.py: the USB device correlation pipeline and the    *)
(* volume boot record (VBR) decoder.                                        *)
(*                                                                          *)
(* Text is modelled as a sequence of code points (Python str), bytes as a   *)
(* sequence of 0..255, hex text as the code points of its hex digits.       *)
(* ISO-8601 timestamps are modelled as one-element sequences <<t>> holding  *)
(* the instant in microseconds since 1601-01-01; "" is <<>>.                *)
(***************************************************************************)
EXTENDS Integers, Sequences, FiniteSets, TLC

VARIABLES
    pc,             \* the stage of the script that is running
    devices,        \* the device store: a sequence of ExternalDevice records
    d,              \* the module-level loop variable d: an index into devices, 0 while unbound
    swflag,         \* whether a SOFTWARE hive was opened
    NTUSER,         \* the opened user hives
    kusbstorsnkey,  \* loop variable: the USBSTOR instance key last visited
    kusbsubkey,     \* loop variable: the USB instance key last visited
    kmdval,         \* loop variable: the MountedDevices value last visited
    kwpdkey,        \* loop variable: the Windows Portable Devices key last visited
    kvickey,        \* loop variable: the VolumeInfoCache key last visited
    evtxrecord,     \* loop variable: the event record last visited
    iters,          \* loop iterations run so far, over all stages
    arg,            \* unit harness: the argument handed to the function under test
    ret,            \* unit harness: what the function returned
    called          \* unit harness: whether the function has been applied

pvars == <<pc, devices, d, swflag, NTUSER, kusbstorsnkey, kusbsubkey, kmdval,
           kwpdkey, kvickey, evtxrecord, iters>>

uvars == <<arg, ret, called>>

vars == <<pvars, uvars>>

---------------------------------------------------------------------------
(* Python values and string primitives *)

\* Python's None (get_value of an absent registry value)
None == <<-2>>

\* the outcome "an exception was raised"
Raised == <<-1>>

Min(a, b) == IF a < b THEN a ELSE b

Max(a, b) == IF a > b THEN a ELSE b

\* s[a:b] for a 0-based, a and b possibly negative or beyond the end
PySlice(s, a, b) ==
    LET n  == Len(s)
        lo == IF a < 0 THEN Max(n + a, 0) ELSE Min(a, n)
        hi == IF b < 0 THEN Max(n + b, 0) ELSE Min(b, n)
    IN  IF lo >= hi THEN <<>> ELSE SubSeq(s, lo + 1, hi)

\* s[a:]
PyFrom(s, a) == PySlice(s, a, Len(s))

\* s.startswith(p)
StartsWith(s, p) == Len(p) <= Len(s) /\ SubSeq(s, 1, Len(p)) = p

\* sub in s
Contains(sub, s) ==
    \E k \in 0..(Len(s) - Len(sub)) : SubSeq(s, k + 1, k + Len(sub)) = sub

\* s.find(c, start): the 0-based index of the first c at or after start, else -1
PyFind(s, c, start) ==
    LET hits == {k \in start..(Len(s) - 1) : s[k + 1] = c}
    IN  IF hits = {} THEN -1 ELSE CHOOSE k \in hits : \A j \in hits : k <= j

\* s.rindex(c): the 0-based index of the last c, else -1 (ValueError)
PyRIndex(s, c) ==
    LET hits == {k \in 0..(Len(s) - 1) : s[k + 1] = c}
    IN  IF hits = {} THEN -1 ELSE CHOOSE k \in hits : \A j \in hits : k >= j

\* s.lower() on ASCII text
Lower(s) == [k \in 1..Len(s) |-> IF s[k] \in 65..90 THEN s[k] + 32 ELSE s[k]]

\* the characters str.strip() removes, among chr(0)..chr(255)
Whitespace == {9, 10, 11, 12, 13, 28, 29, 30, 31, 32, 133, 160}

\* s.strip()
Strip(s) ==
    LET keep == {k \in 1..Len(s) : s[k] \notin Whitespace}
    IN  IF keep = {} THEN <<>>
        ELSE SubSeq(s, CHOOSE k \in keep : \A j \in keep : k <= j,
                       CHOOSE k \in keep : \A j \in keep : k >= j)

\* the lowercase hex digit of a nibble, as bytes.hex() and hexlify() print it
HexDigit(n) == IF n < 10 THEN 48 + n ELSE 87 + n

\* the value of a hex digit, -1 for any other character
HexVal(c) ==
    IF c \in 48..57 THEN c - 48
    ELSE IF c \in 97..102 THEN c - 87
    ELSE IF c \in 65..70 THEN c - 55
    ELSE -1

\* bytes.hex() / binascii.hexlify(): two lowercase hex digits per byte
HexOfBytes(b) ==
    [k \in 1..(2 * Len(b)) |->
        IF k % 2 = 1 THEN HexDigit(b[(k + 1) \div 2] \div 16)
                     ELSE HexDigit(b[k \div 2] % 16)]

\* int(chunk, 16) of a one- or two-digit chunk; -1 stands for ValueError
IntBase16(chunk) ==
    IF chunk = <<>> \/ \E k \in 1..Len(chunk) : HexVal(chunk[k]) < 0 THEN -1
    ELSE IF Len(chunk) = 1 THEN HexVal(chunk[1])
    ELSE 16 * HexVal(chunk[1]) + HexVal(chunk[2])

\* n bytes of one value
Blank(n, fill) == [k \in 1..n |-> fill]

\* b with data written at 0-based offset off (cut at the end of b)
Put(b, off, data) ==
    [k \in 1..Len(b) |->
        IF k - 1 >= off /\ k - 1 < off + Len(data) THEN data[k - off] ELSE b[k]]

---------------------------------------------------------------------------
(* The VBR decoder *)

\* hexToText that takes whole bytes only: a trailing single digit raises
hexToTextWholeBytes(khyhexstr) ==
    LET n      == (Len(khyhexstr) + 1) \div 2
        chunks == [k \in 1..n |-> PySlice(khyhexstr, 2 * (k - 1), 2 * k)]
    IN  IF \E k \in 1..n : Len(chunks[k]) # 2 \/ IntBase16(chunks[k]) < 0 THEN Raised
        ELSE [k \in 1..n |-> IntBase16(chunks[k])]

\* hexToText: chr(int(khyhexstr[i:i+2], 16)) for i in range(0, len, 2)
hexToText(khyhexstr) ==
    LET n      == (Len(khyhexstr) + 1) \div 2
        chunks == [k \in 1..n |-> PySlice(khyhexstr, 2 * (k - 1), 2 * k)]
    IN  IF \E k \in 1..n : IntBase16(chunks[k]) < 0 THEN Raised
        ELSE [k \in 1..n |-> IntBase16(chunks[k])]

RECURSIVE flipFrom(_, _)
\* the loop of flipEndianness: for i in range(len, 0, -2): outstr += khexstr[i-2:i]
flipFrom(khexstr, i) ==
    IF i <= 0 THEN <<>>
    ELSE PySlice(khexstr, i - 2, i) \o flipFrom(khexstr, i - 2)

\* flipEndianness that returns the digits in the order given
flipEndiannessKeepOrder(khexstr) == khexstr

\* flipEndianness: the two-digit groups of a hex text in reverse order
flipEndianness(khexstr) == flipFrom(khexstr, Len(khexstr))

sEXFAT == <<69, 88, 70, 65, 84>>            \* "EXFAT"
sExFAT == <<69, 120, 70, 65, 84>>           \* "ExFAT"
sNTFS  == <<78, 84, 70, 83>>                \* "NTFS"
sFAT   == <<70, 65, 84>>                    \* "FAT"

\* getFSFromVbr looking for the FAT signature at hex offset 328 (byte 164)
getFSFromVbrFatAt328(khexvbr) ==
    LET fstype  == hexToText(PySlice(khexvbr, 6, 21))
        fstype2 == hexToText(PySlice(khexvbr, 328, 344))
    IN  IF fstype = Raised THEN Raised
        ELSE IF StartsWith(fstype, sEXFAT) THEN sExFAT
        ELSE IF StartsWith(fstype, sNTFS) THEN sNTFS
        ELSE IF fstype2 = Raised THEN Raised
        ELSE IF StartsWith(fstype2, sFAT) THEN Strip(fstype2)
        ELSE <<>>

\* getFSFromVbr: the filesystem type named by the hex VBR, "" when unknown
getFSFromVbr(khexvbr) ==
    LET fstype  == hexToText(PySlice(khexvbr, 6, 21))
        fstype2 == hexToText(PySlice(khexvbr, 164, 180))
    IN  IF fstype = Raised THEN Raised
        ELSE IF StartsWith(fstype, sEXFAT) THEN sExFAT
        ELSE IF StartsWith(fstype, sNTFS) THEN sNTFS
        ELSE IF fstype2 = Raised THEN Raised
        ELSE IF StartsWith(fstype2, sFAT) THEN Strip(fstype2)
        ELSE <<>>

\* the offset of the VSN for a filesystem type, 0 when unknown
vbrvsnoffset(kfstype) ==
    IF StartsWith(kfstype, sExFAT) THEN 100
    ELSE IF StartsWith(kfstype, sNTFS) THEN 72
    ELSE IF StartsWith(kfstype, sFAT) THEN 67
    ELSE 0

\* the size of the VSN for a filesystem type
vbrvsnsize(kfstype) ==
    IF StartsWith(kfstype, sExFAT) THEN 4
    ELSE IF StartsWith(kfstype, sNTFS) THEN 8
    ELSE 4

\* getVsnFromVbr: "<flipped hex of the VSN> (<fstype>)", "" for an unknown type
getVsnFromVbr(khexvbr) ==
    LET kfstype == getFSFromVbr(khexvbr)
        off     == vbrvsnoffset(kfstype)
        size    == vbrvsnsize(kfstype)
        khyvsn  == PySlice(khexvbr, off * 2, (off + size) * 2)
    IN  IF kfstype = Raised THEN Raised
        ELSE IF off > 0
             THEN flipEndianness(khyvsn) \o <<32, 40>> \o kfstype \o <<41>>
             ELSE <<>>

---------------------------------------------------------------------------
(* Serial number derivation *)

\* the serial of a USBSTOR instance key name
usbstorSerial(name) ==
    LET amp    == PyFind(name, 38, 2)
        remove == Len(name) - amp
    IN  IF amp > 0
        THEN (IF remove = 0 THEN <<>> ELSE PySlice(name, 0, 0 - remove))
        ELSE name

sMSFT30 == <<77, 83, 70, 84, 51, 48>>       \* "MSFT30"

\* stripUaspMarker
stripUaspMarker(ksn) ==
    IF StartsWith(ksn, sMSFT30) THEN PyFrom(ksn, Len(sMSFT30)) ELSE ksn

---------------------------------------------------------------------------
(* The device store and the two enumeration stages *)

\* the total number of loop iterations a run may take
MaxIters == 4

\* ExternalDevice.__init__
ExternalDevice ==
    [ name |-> <<>>, iSerialNumber |-> <<>>, firstConnected |-> <<>>,
      lastConnected |-> <<>>, lastRemoved |-> <<>>, otherConnection |-> <<>>,
      lastDriveLetter |-> <<>>, volumeName |-> <<>>, diskId |-> <<>>,
      userAccounts |-> <<>>, volumeSerials |-> <<>> ]

\* getTime: the ISO text of a timestamp property, "" when the property is absent
getTime(prop) == IF prop = None THEN <<>> ELSE prop

\* snInDevArray
snInDevArray(ksn, kdevarr) ==
    \E i \in 1..Len(kdevarr) : ksn = kdevarr[i].iSerialNumber

\* a loop variable that is not bound yet
Unbound == [name |-> None]

\* USBSTOR instance keys a hive may hold: "A1B2C3&0" (FriendlyName "K", all three
\* properties), "A1B2C3&1" and "7&AB&0" (no FriendlyName, no properties)
UsbstorKeys ==
    { [name |-> <<65, 49, 66, 50, 67, 51, 38, 48>>, FriendlyName |-> <<75>>,
       p0064 |-> <<1>>, p0066 |-> <<3>>, p0067 |-> <<4>>],
      [name |-> <<65, 49, 66, 50, 67, 51, 38, 49>>, FriendlyName |-> None,
       p0064 |-> None, p0066 |-> None, p0067 |-> None],
      [name |-> <<55, 38, 65, 66, 38, 48>>, FriendlyName |-> None,
       p0064 |-> None, p0066 |-> None, p0067 |-> None] }

\* one pass of the USBSTOR loop body
UsbstorInstance ==
    /\ pc = "usbstor"
    /\ iters < MaxIters
    /\ \E k \in UsbstorKeys :
        LET newDev == [ExternalDevice EXCEPT
                         !.name = k.FriendlyName,
                         !.iSerialNumber = usbstorSerial(k.name),
                         !.firstConnected = getTime(k.p0064),
                         !.lastConnected = getTime(k.p0066),
                         !.lastRemoved = getTime(k.p0067)]
        IN  /\ kusbstorsnkey' = k
            /\ devices' = IF newDev.iSerialNumber # <<>>
                          THEN Append(devices, newDev) ELSE devices
    /\ iters' = iters + 1
    /\ UNCHANGED <<pc, d, swflag, NTUSER, kusbsubkey, kmdval, kwpdkey, kvickey,
                   evtxrecord, uvars>>

\* the USBSTOR loop ends and the USB loop begins
EndUsbstor ==
    /\ pc = "usbstor"
    /\ pc' = "usb"
    /\ UNCHANGED <<devices, d, swflag, NTUSER, kusbstorsnkey, kusbsubkey, kmdval,
                   kwpdkey, kvickey, evtxrecord, iters, uvars>>

\* SCSI instance keys: "6&1&0" with FriendlyName, DiskId "{d1}" and properties;
\* the same key with no FriendlyName and no DiskId value; and one without its
\* Device Parameters\Partmgr key
ScsiFull ==
    [name |-> <<54, 38, 49, 38, 48>>, FriendlyName |-> <<83, 83, 68>>,
     Partmgr |-> TRUE, DiskId |-> <<123, 100, 49, 125>>,
     p0064 |-> <<1>>, p0066 |-> <<3>>, p0067 |-> <<4>>]

ScsiBare ==
    [name |-> <<54, 38, 49, 38, 48>>, FriendlyName |-> None,
     Partmgr |-> TRUE, DiskId |-> None,
     p0064 |-> None, p0066 |-> None, p0067 |-> None]

ScsiNoPartmgr == [ScsiBare EXCEPT !.Partmgr = FALSE]

\* USB instance keys, each with the SCSI instances of its hive: "MSFT30A1B2C3"
\* (ParentIdPrefix "6&1"), "MSFT30ZZ9" (no ParentIdPrefix), "5&XY&0" (no marker)
UsbKeys ==
    { [name |-> <<77, 83, 70, 84, 51, 48, 65, 49, 66, 50, 67, 51>>,
       ParentIdPrefix |-> <<54, 38, 49>>, scsi |-> <<ScsiFull>>],
      [name |-> <<77, 83, 70, 84, 51, 48, 65, 49, 66, 50, 67, 51>>,
       ParentIdPrefix |-> <<54, 38, 49>>, scsi |-> <<ScsiNoPartmgr>>],
      [name |-> <<77, 83, 70, 84, 51, 48, 90, 90, 57>>,
       ParentIdPrefix |-> None, scsi |-> <<ScsiFull>>],
      [name |-> <<77, 83, 70, 84, 51, 48, 90, 90, 57>>,
       ParentIdPrefix |-> <<54, 38, 49>>, scsi |-> <<ScsiBare>>],
      [name |-> <<53, 38, 88, 89, 38, 48>>,
       ParentIdPrefix |-> None, scsi |-> <<>>] }

RECURSIVE scanScsi(_, _, _, _)
\* the two nested SCSI loops run for one USB instance: khyzDev as it leaves them;
\* ok is FALSE when get_key of a matched instance's Partmgr key raises
scanScsi(khyzDev, kdevParentId, scsi, i) ==
    IF i > Len(scsi) THEN [ok |-> TRUE, dev |-> khyzDev]
    ELSE LET k == scsi[i]
         IN  IF kdevParentId # None /\ StartsWith(k.name, kdevParentId)
             THEN IF ~k.Partmgr THEN [ok |-> FALSE, dev |-> khyzDev]
                  ELSE scanScsi([khyzDev EXCEPT
                                   !.name = k.FriendlyName,
                                   !.diskId = k.DiskId,
                                   !.firstConnected = getTime(k.p0064),
                                   !.lastConnected = getTime(k.p0066),
                                   !.lastRemoved = getTime(k.p0067)],
                                kdevParentId, scsi, i + 1)
             ELSE scanScsi(khyzDev, kdevParentId, scsi, i + 1)

\* usbAppend without the look-up in the store
usbAppendNoDedup(khyzDev, kdevarr) ==
    IF khyzDev.iSerialNumber # <<>> THEN Append(kdevarr, khyzDev) ELSE kdevarr

\* the store after one USB instance: the SCSI-bridged device is appended when its
\* serial is not blank and not in the store yet
usbAppend(khyzDev, kdevarr) ==
    IF khyzDev.iSerialNumber # <<>> /\ ~snInDevArray(khyzDev.iSerialNumber, kdevarr)
    THEN Append(kdevarr, khyzDev) ELSE kdevarr

\* one pass of the USB loop body
UsbInstance ==
    /\ pc = "usb"
    /\ iters < MaxIters
    /\ \E k \in UsbKeys :
        /\ kusbsubkey' = k
        /\ IF StartsWith(k.name, sMSFT30)
           THEN LET khyzDev == scanScsi([ExternalDevice EXCEPT
                                           !.iSerialNumber = PyFrom(k.name, 6)],
                                        k.ParentIdPrefix, k.scsi, 1)
                IN  IF ~khyzDev.ok
                    THEN pc' = "crashed" /\ devices' = devices
                    ELSE pc' = pc /\ devices' = usbAppend(khyzDev.dev, devices)
           ELSE pc' = pc /\ devices' = devices
    /\ iters' = iters + 1
    /\ UNCHANGED <<d, swflag, NTUSER, kusbstorsnkey, kmdval, kwpdkey, kvickey,
                   evtxrecord, uvars>>

\* the USB loop ends and the MountedDevices loop begins
EndUsb ==
    /\ pc = "usb"
    /\ pc' = "mounted"
    /\ UNCHANGED <<devices, d, swflag, NTUSER, kusbstorsnkey, kusbsubkey, kmdval,
                   kwpdkey, kvickey, evtxrecord, iters, uvars>>

---------------------------------------------------------------------------
(* The Mounted-Volume resolver *)

\* s.encode('utf-16le') for text of the basic plane
Utf16le(s) ==
    [k \in 1..(2 * Len(s)) |->
        IF k % 2 = 1 THEN s[(k + 1) \div 2] % 256 ELSE s[k \div 2] \div 256]

\* khexsn in khexmd: the hex text of the serial occurs in the hex text of the value
serialInValue(dev, value) ==
    Contains(HexOfBytes(Utf16le(dev.iSerialNumber)), HexOfBytes(value))

sDosDevices == <<92, 68, 111, 115, 68, 101, 118, 105, 99, 101, 115, 92>>  \* "\DosDevices\"
sVolume     == <<92, 63, 63, 92, 86, 111, 108, 117, 109, 101, 123>>       \* "\??\Volume{"

\* whether at least one user hive was opened
ntuflag == NTUSER # <<>>

\* the drive letter a \DosDevices value gives a device: a later value overwrites
\* an earlier one
mdDriveLetter(dev, kmd) ==
    [dev EXCEPT !.lastDriveLetter = PyFrom(kmd.name, -2) \o <<92>>]

\* the \DosDevices branch over all devices
mdDos(kdevarr, kmd) ==
    [i \in 1..Len(kdevarr) |->
        IF serialInValue(kdevarr[i], kmd.value)
        THEN mdDriveLetter(kdevarr[i], kmd) ELSE kdevarr[i]]

\* kusername.split('\\')[2]; Raised stands for the AttributeError of None and the
\* IndexError of a path with fewer than three components
desktopUser(desktop) ==
    IF desktop = None THEN Raised
    ELSE LET bs   == {k \in 1..Len(desktop) : desktop[k] = 92}
             nth(n) == CHOOSE k \in bs : Cardinality({j \in bs : j <= k}) = n
         IN  IF Cardinality(bs) < 2 THEN Raised
             ELSE SubSeq(desktop, nth(2) + 1,
                         IF Cardinality(bs) >= 3 THEN nth(3) - 1 ELSE Len(desktop))

RECURSIVE ntuLoop(_, _, _)
\* the loop over the user hives for one matched device; ok is FALSE when reading
\* the account name of a hive raises
ntuLoop(dev, diskGuid, j) ==
    IF j > Len(NTUSER) THEN [ok |-> TRUE, dev |-> dev]
    ELSE LET kusername == desktopUser(NTUSER[j].Desktop)
         IN  IF kusername = Raised
             THEN [ok |-> FALSE, dev |-> dev]
             ELSE ntuLoop(IF \E m \in 1..Len(NTUSER[j].MountPoints2) :
                                 NTUSER[j].MountPoints2[m] = diskGuid
                          THEN [dev EXCEPT !.userAccounts = Append(@, kusername)]
                          ELSE dev,
                          diskGuid, j + 1)

RECURSIVE mdVolume(_, _, _)
\* the \??\Volume{ branch from device i on: the store, the device d is left bound
\* to, and whether the loop ran to its end (an exception ends it early)
mdVolume(kdevarr, kmd, i) ==
    IF i > Len(kdevarr) THEN [ok |-> TRUE, devs |-> kdevarr, d |-> Len(kdevarr)]
    ELSE IF serialInValue(kdevarr[i], kmd.value)
         THEN LET r    == ntuLoop(kdevarr[i], PyFrom(kmd.name, -38), 1)
                  devs == [kdevarr EXCEPT ![i] = r.dev]
              IN  IF r.ok THEN mdVolume(devs, kmd, i + 1)
                  ELSE [ok |-> FALSE, devs |-> devs, d |-> i]
         ELSE mdVolume(kdevarr, kmd, i + 1)

\* the value "\DosDevices\E:" and "\DosDevices\F:" both holding "#A1B2C3&0#" in
\* UTF-16LE, a volume GUID value holding the same bytes, and an empty value
MountedBlob ==
    <<35, 0, 65, 0, 49, 0, 66, 0, 50, 0, 67, 0, 51, 0, 38, 0, 48, 0, 35, 0>>

\* "{01234567-89ab-cdef-0123-456789abcdef}"
VolumeGuid ==
    <<123, 48, 49, 50, 51, 52, 53, 54, 55, 45, 56, 57, 97, 98, 45, 99, 100,
      101, 102, 45, 48, 49, 50, 51, 45, 52, 53, 54, 55, 56, 57, 97, 98, 99,
      100, 101, 102, 125>>

\* bytes 04 10 03 10 04 20 03 20 04 30 03 30 00: their hex text holds the hex
\* text of "A1B2C3" in UTF-16LE from its second digit on, and the bytes themselves
\* hold no 41 00
MountedShifted == <<4, 16, 3, 16, 4, 32, 3, 32, 4, 48, 3, 48, 0>>

\* the values a hive may hold: the three above, "\DosDevices\C:" with an empty
\* value, and "\DosDevices\G:" holding the shifted bytes
MountedValues ==
    { [name |-> sDosDevices \o <<69, 58>>, value |-> MountedBlob],
      [name |-> sDosDevices \o <<71, 58>>, value |-> MountedShifted],
      [name |-> sDosDevices \o <<70, 58>>, value |-> MountedBlob],
      [name |-> <<92, 63, 63, 92, 86, 111, 108, 117, 109, 101>> \o VolumeGuid,
       value |-> MountedBlob],
      [name |-> sDosDevices \o <<67, 58>>, value |-> None] }

\* user hives: none, or the hive of "bob" (Desktop "C:\Users\bob\Desktop") whose
\* MountPoints2 holds the volume GUID
UserHives ==
    { <<>>,
      << [Desktop |-> <<67, 58, 92, 85, 115, 101, 114, 115, 92, 98, 111, 98, 92,
                        68, 101, 115, 107, 116, 111, 112>>,
          MountPoints2 |-> <<VolumeGuid>>] >> }

\* one pass of the MountedDevices loop body
MountedValue ==
    /\ pc = "mounted"
    /\ iters < MaxIters
    /\ \E v \in MountedValues :
        LET isDos  == StartsWith(v.name, sDosDevices)
            isVol  == StartsWith(v.name, sVolume)
            \* hexlify(None) raises: the except clause continues with the next value
            raises == v.value = None
            devs1  == IF isDos /\ ~raises THEN mdDos(devices, v) ELSE devices
            d1     == IF isDos /\ ~raises /\ Len(devices) > 0 THEN Len(devices) ELSE d
            vol    == mdVolume(devs1, v, 1)
        IN  /\ kmdval' = v
            /\ IF ntuflag /\ isVol /\ ~raises
               THEN /\ devices' = vol.devs
                    /\ d' = IF vol.d > 0 THEN vol.d ELSE d1
               ELSE /\ devices' = devs1
                    /\ d' = d1
    /\ iters' = iters + 1
    /\ UNCHANGED <<pc, swflag, NTUSER, kusbstorsnkey, kusbsubkey, kwpdkey, kvickey,
                   evtxrecord, uvars>>

\* the MountedDevices loop ends; the next statement reads SOFTWARE, a name that
\* is bound only when a SOFTWARE hive was opened
EndMounted ==
    /\ pc = "mounted"
    /\ pc' = IF swflag THEN "wpd" ELSE "crashed"
    /\ UNCHANGED <<devices, d, swflag, NTUSER, kusbstorsnkey, kusbsubkey, kmdval,
                   kwpdkey, kvickey, evtxrecord, iters, uvars>>

---------------------------------------------------------------------------
(* The Portable-Device / Volume-Cache resolver *)

\* setLastDriveLetter guarded by the test of the Portable Devices and
\* VolumeInfoCache loops: the letter is written only while it is ""
setDriveLetterIfUnset(dev, khydl) ==
    IF dev.lastDriveLetter = <<>> THEN [dev EXCEPT !.lastDriveLetter = khydl] ELSE dev

\* setVolumeName as the Portable Devices loop calls it
setVolumeName(dev, khyvn) == [dev EXCEPT !.volumeName = khyvn]

\* wpdApply without the test for a drive-style name: every name is a label
wpdApplyNoDriveTest(kdev, volName) ==
    IF volName = None THEN [ok |-> FALSE, dev |-> kdev]
    ELSE [ok |-> TRUE, dev |-> setVolumeName(kdev, volName)]

\* the body run for a device that a Portable Devices key matches; ok is FALSE
\* when FriendlyName is absent (":\\" in None raises)
wpdApply(kdev, volName) ==
    IF volName = None THEN [ok |-> FALSE, dev |-> kdev]
    ELSE IF Contains(<<58, 92>>, volName)
         THEN [ok |-> TRUE, dev |-> setDriveLetterIfUnset(kdev, volName)]
         ELSE [ok |-> TRUE, dev |-> setVolumeName(kdev, volName)]

\* one device against one Portable Devices key: serial first, then disk id;
\* ok is FALSE when the disk id is None (None.lower() raises)
wpdDevice(kdev, k) ==
    IF Contains(Lower(kdev.iSerialNumber), Lower(k.name))
    THEN wpdApply(kdev, k.FriendlyName)
    ELSE IF kdev.diskId = None THEN [ok |-> FALSE, dev |-> kdev]
    ELSE IF Lower(kdev.diskId) # <<>> /\ Contains(Lower(kdev.diskId), Lower(k.name))
         THEN wpdApply(kdev, k.FriendlyName)
         ELSE [ok |-> TRUE, dev |-> kdev]

RECURSIVE wpdLoop(_, _, _)
\* the loop over the devices for one Portable Devices key, from device i on
wpdLoop(kdevarr, k, i) ==
    IF i > Len(kdevarr) THEN [ok |-> TRUE, devs |-> kdevarr]
    ELSE LET r    == wpdDevice(kdevarr[i], k)
             devs == [kdevarr EXCEPT ![i] = r.dev]
         IN  IF r.ok THEN wpdLoop(devs, k, i + 1) ELSE [ok |-> FALSE, devs |-> devs]

\* Portable Devices keys: "X#a1b2c3&0#" named "VOL", "BK" or "G:\", the key
\* "Y#{D1}#" of a disk id named "VOL", and "X#a1b2c3&0#" with no FriendlyName
WpdKeys ==
    { [name |-> <<88, 35, 97, 49, 98, 50, 99, 51, 38, 48, 35>>,
       FriendlyName |-> <<86, 79, 76>>],
      [name |-> <<88, 35, 97, 49, 98, 50, 99, 51, 38, 48, 35>>,
       FriendlyName |-> <<66, 75>>],
      [name |-> <<88, 35, 97, 49, 98, 50, 99, 51, 38, 48, 35>>,
       FriendlyName |-> <<71, 58, 92>>],
      [name |-> <<89, 35, 123, 68, 49, 125, 35>>,
       FriendlyName |-> <<86, 79, 76>>],
      [name |-> <<88, 35, 97, 49, 98, 50, 99, 51, 38, 48, 35>>,
       FriendlyName |-> None] }

\* one pass of the Windows Portable Devices loop body
WpdKey ==
    /\ pc = "wpd"
    /\ iters < MaxIters
    /\ \E k \in WpdKeys :
        LET r == wpdLoop(devices, k, 1)
        IN  /\ kwpdkey' = k
            /\ devices' = r.devs
            /\ pc' = IF r.ok THEN pc ELSE "crashed"
    /\ iters' = iters + 1
    /\ UNCHANGED <<d, swflag, NTUSER, kusbstorsnkey, kusbsubkey, kmdval, kvickey,
                   evtxrecord, uvars>>

\* the Portable Devices loop ends and the VolumeInfoCache loop begins
EndWpd ==
    /\ pc = "wpd"
    /\ pc' = "vic"
    /\ UNCHANGED <<devices, d, swflag, NTUSER, kusbstorsnkey, kusbsubkey, kmdval,
                   kwpdkey, kvickey, evtxrecord, iters, uvars>>

\* convertWin64time: 100 ns ticks since 1601 to the ISO text of the microsecond
convertWin64time(khyts) == <<khyts \div 10>>

\* addOtherConnection
addOtherConnection(dev, khyoc) ==
    [dev EXCEPT !.otherConnection = Append(@, khyoc)]

\* whether a timestamp is among a device's other connections
inOtherConnections(dev, t) ==
    \E i \in 1..Len(dev.otherConnection) : dev.otherConnection[i] = t

RECURSIVE vicLoop(_, _, _, _)
\* the loop over the devices for one VolumeInfoCache key, from device i on. The
\* connection time is looked up in, and appended to, the device bound to d, after
\* which the loop breaks; ok is FALSE when d is read while unbound
vicLoop(kdevarr, k, i, dcur) ==
    IF i > Len(kdevarr) THEN [ok |-> TRUE, devs |-> kdevarr]
    ELSE IF kdevarr[i].volumeName = k.VolumeLabel
         THEN LET devs    == [kdevarr EXCEPT
                                ![i] = setDriveLetterIfUnset(@, k.name \o <<92>>)]
                  klwtime == convertWin64time(k.last_modified)
              IN  IF dcur = 0 THEN [ok |-> FALSE, devs |-> devs]
                  ELSE IF inOtherConnections(devs[dcur], klwtime)
                       THEN vicLoop(devs, k, i + 1, dcur)
                       ELSE [ok |-> TRUE,
                             devs |-> [devs EXCEPT
                                         ![dcur] = addOtherConnection(@, klwtime)]]
         ELSE vicLoop(kdevarr, k, i + 1, dcur)

\* VolumeInfoCache keys: "H:" labelled "VOL" written at tick 20, "I:" labelled
\* "VOL" written at tick 25 (the same microsecond), "J:" with an empty label
VicKeys ==
    { [name |-> <<72, 58>>, VolumeLabel |-> <<86, 79, 76>>, last_modified |-> 20],
      [name |-> <<73, 58>>, VolumeLabel |-> <<86, 79, 76>>, last_modified |-> 25],
      [name |-> <<74, 58>>, VolumeLabel |-> <<>>, last_modified |-> 50] }

\* one pass of the VolumeInfoCache loop body
VicKey ==
    /\ pc = "vic"
    /\ iters < MaxIters
    /\ \E k \in VicKeys :
        LET r == vicLoop(devices, k, 1, d)
        IN  /\ kvickey' = k
            /\ devices' = r.devs
            /\ pc' = IF r.ok THEN pc ELSE "crashed"
    /\ iters' = iters + 1
    /\ UNCHANGED <<d, swflag, NTUSER, kusbstorsnkey, kusbsubkey, kmdval, kwpdkey,
                   evtxrecord, uvars>>

\* the VolumeInfoCache loop ends and the event log is opened, which raises when
\* the log file does not exist
EndVic ==
    /\ pc = "vic"
    /\ \E exists \in BOOLEAN : pc' = IF exists THEN "evtx" ELSE "crashed"
    /\ UNCHANGED <<devices, d, swflag, NTUSER, kusbstorsnkey, kusbsubkey, kmdval,
                   kwpdkey, kvickey, evtxrecord, iters, uvars>>

---------------------------------------------------------------------------
(* The Event Correlator *)

usbEvtId == <<49, 48, 48, 54>>              \* "1006"
sUSB     == <<85, 83, 66, 92>>              \* "USB\"
sNone    == <<78, 111, 110, 101>>           \* "None"

\* the text of a Data element, "" when reading it raises
dataText(v) == IF v = None THEN <<>> ELSE v

\* the serial in ParentId: everything after the last '\', marker stripped
parentSerial(parent) ==
    stripUaspMarker(PyFrom(parent, PyRIndex(parent, 92) + 1))

\* the VSN text of the Vbr0 element, "" when it is absent or decoding raises
vbrText(vbr) ==
    IF vbr = None THEN <<>>
    ELSE LET vsn == getVsnFromVbr(HexOfBytes(vbr))
         IN  IF vsn = Raised THEN <<>> ELSE vsn

\* evtAddConnection without the look-up: the time is appended every time
evtAddConnectionNoCheck(dev, isoETime) == addOtherConnection(dev, isoETime)

\* isoETime appended to the other connections unless it is there already
evtAddConnection(dev, isoETime) ==
    IF inOtherConnections(dev, isoETime) THEN dev
    ELSE addOtherConnection(dev, isoETime)

\* vsn appended to the volume serials unless it is there, "None" or ""
evtAddVsn(dev, vsn) ==
    IF (~\E i \in 1..Len(dev.volumeSerials) : dev.volumeSerials[i] = vsn)
       /\ vsn # sNone /\ vsn # <<>>
    THEN [dev EXCEPT !.volumeSerials = Append(@, vsn)]
    ELSE dev

\* the name filled in from the event when the registry gave none
evtBackfillName(dev, make, model) ==
    IF dev.name = <<>> THEN [dev EXCEPT !.name = make \o <<32>> \o model] ELSE dev

\* the update of one device that an event record matches
evtUpdate(dev, r) ==
    evtBackfillName(
        evtAddVsn(evtAddConnection(dev, r.eTime), vbrText(r.Vbr0)),
        dataText(r.Manufacturer), dataText(r.Model))

\* the matching loop of one event record over the store
evtLoop(kdevarr, r) ==
    LET sn        == stripUaspMarker(dataText(r.SerialNumber))
        parent_sn == parentSerial(dataText(r.ParentId))
    IN  [i \in 1..Len(kdevarr) |->
            IF sn = kdevarr[i].iSerialNumber \/ parent_sn = kdevarr[i].iSerialNumber
            THEN evtUpdate(kdevarr[i], r) ELSE kdevarr[i]]

\* an NTFS boot sector with serial 12 34 56 78 9A BC DE F0, and a sector of zeros
EvtSectors ==
    << Put(Put(Blank(96, 0), 72, <<18, 52, 86, 120, 154, 188, 222, 240>>),
           3, <<78, 84, 70, 83, 32, 32, 32, 32>>),
       Blank(96, 0) >>

\* event records: two arrivals of "A1B2C3" under USB (at microseconds 2 and 5,
\* the first with an NTFS sector), an arrival of "MSFT30ZZ9" with no serial field
\* and an unknown sector, an arrival under SCSI, and a record of another event
EvtxRecords ==
    { [eId |-> usbEvtId, eTime |-> <<2>>,
       ParentId |-> <<85, 83, 66, 92, 86, 92, 65, 49, 66, 50, 67, 51>>,
       SerialNumber |-> <<65, 49, 66, 50, 67, 51>>,
       Manufacturer |-> <<77>>, Model |-> <<84>>, Vbr0 |-> EvtSectors[1]],
      [eId |-> usbEvtId, eTime |-> <<5>>,
       ParentId |-> <<85, 83, 66, 92, 86, 92, 65, 49, 66, 50, 67, 51>>,
       SerialNumber |-> <<65, 49, 66, 50, 67, 51>>,
       Manufacturer |-> None, Model |-> None, Vbr0 |-> None],
      [eId |-> usbEvtId, eTime |-> <<2>>,
       ParentId |-> <<85, 83, 66, 92, 86, 92, 77, 83, 70, 84, 51, 48, 90, 90, 57>>,
       SerialNumber |-> None,
       Manufacturer |-> <<77>>, Model |-> <<84>>, Vbr0 |-> EvtSectors[2]],
      [eId |-> usbEvtId, eTime |-> <<5>>,
       ParentId |-> <<83, 67, 83, 73, 92, 86, 92, 65, 49, 66, 50, 67, 51>>,
       SerialNumber |-> <<65, 49, 66, 50, 67, 51>>,
       Manufacturer |-> <<77>>, Model |-> <<84>>, Vbr0 |-> EvtSectors[1]],
      [eId |-> <<49, 48, 48, 48>>, eTime |-> <<2>>,
       ParentId |-> <<85, 83, 66, 92, 86, 92, 65, 49, 66, 50, 67, 51>>,
       SerialNumber |-> <<65, 49, 66, 50, 67, 51>>,
       Manufacturer |-> <<77>>, Model |-> <<84>>, Vbr0 |-> EvtSectors[1]] }

\* one pass of the event record loop body
EvtxRecord ==
    /\ pc = "evtx"
    /\ iters < MaxIters
    /\ \E r \in EvtxRecords :
        LET matching == r.eId = usbEvtId /\ StartsWith(dataText(r.ParentId), sUSB)
        IN  /\ evtxrecord' = r
            /\ devices' = IF matching THEN evtLoop(devices, r) ELSE devices
            /\ d' = IF matching /\ Len(devices) > 0 THEN Len(devices) ELSE d
    /\ iters' = iters + 1
    /\ UNCHANGED <<pc, swflag, NTUSER, kusbstorsnkey, kusbsubkey, kmdval, kwpdkey,
                   kvickey, uvars>>

\* the event log ends and the store is printed
EndEvtx ==
    /\ pc = "evtx"
    /\ pc' = "output"
    /\ UNCHANGED <<devices, d, swflag, NTUSER, kusbstorsnkey, kusbsubkey, kmdval,
                   kwpdkey, kvickey, evtxrecord, iters, uvars>>

---------------------------------------------------------------------------
(* The script as a whole *)

\* the state once the hives are opened and the store is created
Init ==
    /\ pc = "usbstor"
    /\ devices = <<>>
    /\ d = 0
    /\ swflag \in BOOLEAN
    /\ NTUSER \in UserHives
    /\ kusbstorsnkey = Unbound
    /\ kusbsubkey = Unbound
    /\ kmdval = Unbound
    /\ kwpdkey = Unbound
    /\ kvickey = Unbound
    /\ evtxrecord = Unbound
    /\ iters = 0
    /\ arg = <<>>
    /\ ret = <<>>
    /\ called = FALSE

Next ==
    \/ UsbstorInstance
    \/ EndUsbstor
    \/ UsbInstance
    \/ EndUsb
    \/ MountedValue
    \/ EndMounted
    \/ WpdKey
    \/ EndWpd
    \/ VicKey
    \/ EndVic
    \/ EvtxRecord
    \/ EndEvtx

Spec == Init /\ [][Next]_vars

---------------------------------------------------------------------------
(* Unit harness: the decoder and the serial derivation applied to inputs    *)
(* drawn from bounded sets                                                   *)

\* the longest crafted sector
MaxSectorLen == 192

\* the longest instance key name enumerated
MaxNameLen == 5

SectorLens == {0, 3, 5, 8, 70, 76, 80, 90, 104, 172, MaxSectorLen}

\* "NTFS    ", "EXFAT   ", "FAT32   ", "FAT16   ", "FAT", "MSDOS5.0"
Signatures ==
    { <<78, 84, 70, 83, 32, 32, 32, 32>>, <<69, 88, 70, 65, 84, 32, 32, 32>>,
      <<70, 65, 84, 51, 50, 32, 32, 32>>, <<70, 65, 84, 49, 54, 32, 32, 32>>,
      <<70, 65, 84>>, <<77, 83, 68, 79, 83, 53, 46, 48>> }

SigOffsets == {3, 82, 164}

VsnOffsets == {67, 72, 100}

\* 12 34 56 78 9A BC DE F0 and AA BB CC DD
VsnValues == { <<18, 52, 86, 120, 154, 188, 222, 240>>, <<170, 187, 204, 221>> }

\* crafted boot sectors: a signature and a serial number written into a blank
\* sector of some length, each at one of the offsets in question
VbrInputs ==
    { Put(Put(Blank(n, fill), vo, vsn), so, sig) :
        n \in SectorLens, fill \in {0, 32}, so \in SigOffsets, sig \in Signatures,
        vo \in VsnOffsets, vsn \in VsnValues }

\* '1', '&', '0'
NameAlphabet == {49, 38, 48}

\* "1234&5678&0", "A1B2C3&0", "7&1a2b3c&0"
NamedInstances ==
    { <<49, 50, 51, 52, 38, 53, 54, 55, 56, 38, 48>>,
      <<65, 49, 66, 50, 67, 51, 38, 48>>,
      <<55, 38, 49, 97, 50, 98, 51, 99, 38, 48>> }

NameInputs ==
    NamedInstances \cup UNION { [1..n -> NameAlphabet] : n \in 1..MaxNameLen }

\* hexvbr = base64.b64decode(...).hex(); vsn = getVsnFromVbr(hexvbr)
DecodeVbr ==
    /\ ~called
    /\ called' = TRUE
    /\ ret' = getVsnFromVbr(HexOfBytes(arg))
    /\ UNCHANGED <<arg, pvars>>

\* the serial derivation of the USBSTOR loop applied to one instance key name
DeriveSerial ==
    /\ ~called
    /\ called' = TRUE
    /\ ret' = usbstorSerial(arg)
    /\ UNCHANGED <<arg, pvars>>

\* the script's own state while a function is exercised on its own
Idle ==
    /\ pc = "unit"
    /\ devices = <<>>
    /\ d = 0
    /\ swflag = FALSE
    /\ NTUSER = <<>>
    /\ kusbstorsnkey = Unbound
    /\ kusbsubkey = Unbound
    /\ kmdval = Unbound
    /\ kwpdkey = Unbound
    /\ kvickey = Unbound
    /\ evtxrecord = Unbound
    /\ iters = 0

InitVbr == Idle /\ arg \in VbrInputs /\ ret = <<>> /\ called = FALSE

InitSerial == Idle /\ arg \in NameInputs /\ ret = <<>> /\ called = FALSE

SpecVbr == InitVbr /\ [][DecodeVbr]_vars

SpecSerial == InitSerial /\ [][DeriveSerial]_vars

---------------------------------------------------------------------------
(* Properties *)

\* whether a sequence holds no element twice
NoRepeats(seq) == \A i, j \in 1..Len(seq) : i # j => seq[i] # seq[j]

\* whether the event record last visited is an arrival under USB that names dev
evtMatches(dev) ==
    /\ "eId" \in DOMAIN evtxrecord
    /\ evtxrecord.eId = usbEvtId
    /\ StartsWith(dataText(evtxrecord.ParentId), sUSB)
    /\ \/ stripUaspMarker(dataText(evtxrecord.SerialNumber)) = dev.iSerialNumber
       \/ parentSerial(dataText(evtxrecord.ParentId)) = dev.iSerialNumber

\* C1: at every point of the run no two entries of the device store have the
\* same non-empty serial number.
C1_SerialsUnique ==
    \A i, j \in 1..Len(devices) :
        (i # j /\ devices[i].iSerialNumber # <<>>)
            => devices[i].iSerialNumber # devices[j].iSerialNumber

\* C2: once a device's lastDriveLetter is non-empty, no later step of any stage
\* changes it.
C2_DriveLetterFirstWriteWins ==
    [][\A i \in 1..Len(devices) :
          devices[i].lastDriveLetter # <<>>
              => devices'[i].lastDriveLetter = devices[i].lastDriveLetter]_vars

\* C3: for every device, otherConnection and volumeSerials hold no element twice,
\* and volumeSerials never holds "" or "None", in every state of the run (so after
\* the VolumeInfoCache stage and after any number of event records).
C3_NoRepeatedElements ==
    \A i \in 1..Len(devices) :
        /\ NoRepeats(devices[i].otherConnection)
        /\ NoRepeats(devices[i].volumeSerials)
        /\ \A k \in 1..Len(devices[i].volumeSerials) :
               devices[i].volumeSerials[k] \notin {<<>>, sNone}

\* C3 witness: an event record has been matched to a device whose VolumeInfoCache
\* connection time is the record's own time, and the time is there once.
C3_Witness ==
    /\ pc = "evtx"
    /\ Len(devices) = 1
    /\ evtMatches(devices[1])
    /\ "VolumeLabel" \in DOMAIN kvickey
    /\ devices[1].volumeName = kvickey.VolumeLabel
    /\ convertWin64time(kvickey.last_modified) = evtxrecord.eTime
    /\ devices[1].otherConnection = <<evtxrecord.eTime>>

\* the 0-based positions of '&' in a name, and the n-th of them
ampersands(name) == {k \in 0..(Len(name) - 1) : name[k + 1] = 38}

nthAmpersand(name, n) ==
    CHOOSE k \in ampersands(name) :
        Cardinality({j \in ampersands(name) : j <= k}) = n

\* C4: the serial of a USBSTOR instance name is the name cut at its second '&'
\* (so "1234&5678&0" gives "1234&5678"), and a name with no '&' at or after
\* offset 2 gives the whole name.
C4_CutAtSecondAmpersand ==
    called =>
        /\ (Cardinality(ampersands(arg)) >= 2 /\ nthAmpersand(arg, 2) >= 2)
               => ret = SubSeq(arg, 1, nthAmpersand(arg, 2))
        /\ (\A k \in ampersands(arg) : k < 2) => ret = arg

\* the bytes b[off], ..., b[off+size-1] that b holds, last first, each as two
\* lowercase hex digits
reversedHex(b, off, size) ==
    LET hi == Min(off + size, Len(b))
        n  == Max(hi - off, 0)
    IN  [k \in 1..(2 * n) |->
            LET byte == b[hi - ((k - 1) \div 2)]
            IN  IF k % 2 = 1 THEN HexDigit(byte \div 16) ELSE HexDigit(byte % 16)]

\* C5: whenever the decoder classifies a sector as NTFS, ExFAT or a FAT type, its
\* result is the lowercase hex of the sector's bytes at byte offset 72 (8 bytes),
\* 100 (4 bytes) or 67 (4 bytes), last byte first, followed by " (<fstype>)"; an
\* NTFS sector with 12 34 56 78 9A BC DE F0 at offset 72 gives
\* "f0debc9a78563412 (NTFS)".
C5_VsnExtraction ==
    LET fstype == getFSFromVbr(HexOfBytes(arg))
        tail   == <<32, 40>> \o fstype \o <<41>>
    IN  (called /\ fstype # <<>>) =>
            /\ fstype = sNTFS => ret = reversedHex(arg, 72, 8) \o tail
            /\ fstype = sExFAT => ret = reversedHex(arg, 100, 4) \o tail
            /\ StartsWith(fstype, sFAT) => ret = reversedHex(arg, 67, 4) \o tail
            /\ (fstype = sNTFS /\ PySlice(arg, 72, 80) = <<18, 52, 86, 120, 154, 188, 222, 240>>)
                   => ret = <<102, 48, 100, 101, 98, 99, 57, 97, 55, 56, 53, 54,
                              51, 52, 49, 50, 32, 40, 78, 84, 70, 83, 41>>

\* C5 witness: the NTFS sector of the claim has been decoded.
C5_Witness ==
    /\ called
    /\ PySlice(arg, 3, 7) = sNTFS
    /\ PySlice(arg, 72, 80) = <<18, 52, 86, 120, 154, 188, 222, 240>>
    /\ ret = <<102, 48, 100, 101, 98, 99, 57, 97, 55, 56, 53, 54,
               51, 52, 49, 50, 32, 40, 78, 84, 70, 83, 41>>

\* whether a sector has neither "EXFAT" nor "NTFS" at byte offset 3
noNtfsOrExfat(b) ==
    ~StartsWith(PyFrom(b, 3), sEXFAT) /\ ~StartsWith(PyFrom(b, 3), sNTFS)

sFAT32Field == <<70, 65, 84, 51, 50, 32, 32, 32>>       \* "FAT32   "

sDdccbbaaFat32 ==                                        \* "ddccbbaa (FAT32)"
    <<100, 100, 99, 99, 98, 98, 97, 97, 32, 40, 70, 65, 84, 51, 50, 41>>

\* C6 as claimed: a sector with no EXFAT/NTFS signature, "FAT32   " at byte
\* offset 164 and AA BB CC DD at byte offset 67 decodes to "ddccbbaa (FAT32)".
C6_FatSignatureAtByte164 ==
    (/\ called
     /\ noNtfsOrExfat(arg)
     /\ PySlice(arg, 164, 172) = sFAT32Field
     /\ PySlice(arg, 67, 71) = <<170, 187, 204, 221>>)
        => ret = sDdccbbaaFat32

\* C6 as amended: a sector with no EXFAT/NTFS signature, "FAT32   " at byte
\* offset 82 (offset 164 of the hex text) and AA BB CC DD at byte offset 67
\* decodes to "ddccbbaa (FAT32)".
C6_FatSignatureAtByte82 ==
    (/\ called
     /\ noNtfsOrExfat(arg)
     /\ PySlice(arg, 82, 90) = sFAT32Field
     /\ PySlice(arg, 67, 71) = <<170, 187, 204, 221>>)
        => ret = sDdccbbaaFat32

\* C6 witness: such a sector has been decoded.
C6_Witness ==
    /\ called
    /\ noNtfsOrExfat(arg)
    /\ PySlice(arg, 82, 90) = sFAT32Field
    /\ PySlice(arg, 67, 71) = <<170, 187, 204, 221>>
    /\ ret = sDdccbbaaFat32

\* C7: for a hex-encoded input of any length the decoder returns a string and
\* does not raise, and the string is empty when the sector has none of "EXFAT",
\* "NTFS" at byte offset 3 and no "FAT" at byte offset 82.
C7_DecoderTotal ==
    called =>
        /\ ret # Raised
        /\ \A k \in 1..Len(ret) : ret[k] \in 0..255
        /\ (noNtfsOrExfat(arg) /\ ~StartsWith(PyFrom(arg, 82), sFAT)) => ret = <<>>

\* C7 witness: a sector that ends inside the first signature field, and so
\* before every other checked offset, has been decoded to "".
C7_Witness ==
    /\ called
    /\ Len(arg) > 3
    /\ Len(arg) < 11
    /\ noNtfsOrExfat(arg)
    /\ ret = <<>>

\* C8: a step of the USB loop on an MSFT30-marked instance whose stripped serial
\* is the serial of a device already in the store leaves the store as it was.
C8_ScsiDuplicateLeavesStore ==
    [][(/\ pc = "usb"
        /\ iters' = iters + 1
        /\ StartsWith(kusbsubkey'.name, sMSFT30)
        /\ \E i \in 1..Len(devices) :
               devices[i].iSerialNumber = PyFrom(kusbsubkey'.name, 6))
          => devices' = devices]_vars

\* C8 witness: the USB loop has visited an MSFT30-marked instance whose stripped
\* serial is that of the one device in the store, which USBSTOR gave.
C8_Witness ==
    /\ pc = "usb"
    /\ StartsWith(kusbsubkey.name, sMSFT30)
    /\ kusbstorsnkey.name # None
    /\ iters = 2
    /\ Len(devices) = 1
    /\ devices[1].iSerialNumber = PyFrom(kusbsubkey.name, 6)
    /\ devices[1].iSerialNumber = usbstorSerial(kusbstorsnkey.name)

\* C9: with one USBSTOR instance "A1B2C3&0", one MountedDevices value
\* "\DosDevices\E:" holding "A1B2C3" in UTF-16LE, no SOFTWARE hive and no user
\* hives, the run does not stop before the output stage, and the store it prints
\* holds one device with serial "A1B2C3", drive letter "E:\", no volume name and
\* no user accounts.
C9_DegradedRunReachesOutput ==
    (/\ ~swflag
     /\ NTUSER = <<>>
     /\ iters = 2
     /\ kusbstorsnkey.name = <<65, 49, 66, 50, 67, 51, 38, 48>>
     /\ kusbsubkey = Unbound
     /\ kmdval.name = sDosDevices \o <<69, 58>>
     /\ Contains(Utf16le(<<65, 49, 66, 50, 67, 51>>), kmdval.value))
        => /\ pc # "crashed"
           /\ pc = "output" =>
                  /\ Len(devices) = 1
                  /\ devices[1].iSerialNumber = <<65, 49, 66, 50, 67, 51>>
                  /\ devices[1].lastDriveLetter = <<69, 58, 92>>
                  /\ devices[1].volumeName = <<>>
                  /\ devices[1].userAccounts = <<>>

vicDescribed(dev, k) ==
    IF dev.volumeName = k.VolumeLabel
    THEN LET lettered == setDriveLetterIfUnset(dev, k.name \o <<92>>)
             klwtime  == convertWin64time(k.last_modified)
         IN  IF inOtherConnections(lettered, klwtime) THEN lettered
             ELSE addOtherConnection(lettered, klwtime)
    ELSE dev

\* C11: every pass of the VolumeInfoCache loop goes on with the loop and leaves
\* each store device as described: a device whose volumeName equals the label of
\* the key has the key's drive letter when it had none and has the key's
\* last-write time among its own other connections (appended unless it was there
\* already); a device whose volumeName differs from the label is unchanged.
C11_VicUpdatesTheMatchingDevice ==
    [][(pc = "vic" /\ iters' = iters + 1)
          => /\ pc' = "vic"
             /\ Len(devices') = Len(devices)
             /\ \A i \in 1..Len(devices) :
                   devices'[i] = vicDescribed(devices[i], kvickey')]_vars

\* the field an optional value is described to give: "" when the value is absent
emptyWhenAbsent(v) == IF v = None THEN <<>> ELSE v

\* the SCSI instance whose values a USB instance ends up with: the last one whose
\* name starts with the ParentIdPrefix, 0 when there is none
linkedScsi(k) ==
    LET linked == {j \in 1..Len(k.scsi) :
                     k.ParentIdPrefix # None
                         /\ StartsWith(k.scsi[j].name, k.ParentIdPrefix)}
    IN  IF linked = {} THEN 0 ELSE CHOOSE j \in linked : \A m \in linked : m <= j

\* C12: a pass of the USBSTOR loop or of the USB loop never aborts the stage, and
\* the device it appends has "" in every field whose optional value is absent:
\* name without FriendlyName, diskId without the DiskId value or without the
\* Partmgr key, a timestamp without its property, and all of them without a
\* ParentIdPrefix that links a SCSI instance.
C12_AbsentOptionalValueGivesEmptyField ==
    [][(pc \in {"usbstor", "usb"} /\ iters' = iters + 1)
          => /\ pc' = pc
             /\ Len(devices') > Len(devices)
                   => LET new == devices'[Len(devices')]
                      IN  IF pc = "usbstor"
                          THEN LET k == kusbstorsnkey'
                               IN  /\ new.name = emptyWhenAbsent(k.FriendlyName)
                                   /\ new.firstConnected = emptyWhenAbsent(k.p0064)
                                   /\ new.lastConnected = emptyWhenAbsent(k.p0066)
                                   /\ new.lastRemoved = emptyWhenAbsent(k.p0067)
                          ELSE LET j == linkedScsi(kusbsubkey')
                                   s == kusbsubkey'.scsi[j]
                               IN  IF j = 0
                                   THEN /\ new.name = <<>>
                                        /\ new.diskId = <<>>
                                        /\ new.firstConnected = <<>>
                                        /\ new.lastConnected = <<>>
                                        /\ new.lastRemoved = <<>>
                                   ELSE /\ new.name = emptyWhenAbsent(s.FriendlyName)
                                        /\ new.diskId = IF s.Partmgr
                                                        THEN emptyWhenAbsent(s.DiskId)
                                                        ELSE <<>>
                                        /\ new.firstConnected = emptyWhenAbsent(s.p0064)
                                        /\ new.lastConnected = emptyWhenAbsent(s.p0066)
                                        /\ new.lastRemoved = emptyWhenAbsent(s.p0067)]_vars

\* C13: a pass of the MountedDevices loop changes a device (its drive letter or
\* its user accounts) only if the UTF-16LE bytes of the device's serial number
\* occur as a contiguous run of whole bytes in the raw bytes of the value; a hit
\* at an odd digit of the hex text changes nothing.
C13_MountedMatchIsByteExact ==
    [][(pc = "mounted" /\ iters' = iters + 1)
          => \A i \in 1..Len(devices) :
                devices'[i] # devices[i]
                    => /\ kmdval'.value # None
                       /\ Contains(Utf16le(devices[i].iSerialNumber),
                                   kmdval'.value)]_vars

=============================================================================
